---- MODULE Spec2Model ----
(***************************************************************************)
(* The realtime connection manager of Loom's backend                       *)
(* (src/backend/app/websocket.py): room and presence registries, quota     *)
(* counters, the bounded offline queue, per-connection heartbeat tasks,    *)
(* notification sends and room broadcasts, as cooperative asyncio tasks.   *)
(* One step of the model is the code a task runs between two suspension    *)
(* points (an await that yields to the event loop).                        *)
(***************************************************************************)
EXTENDS Integers, Sequences, FiniteSets, TLC

\* ------------------------------------------------------------------ bounds
NumSockets == 3
MaxNotify == 2
MaxBroadcast == 1
MaxQuota == 2
MaxInbound == 2
MaxCalls == 3

Users == {"u1", "u2"}
Rooms == {"r1", "r2"}
Sockets == 1 .. NumSockets
Notifs == 1 .. MaxNotify
Calls == 1 .. MaxCalls
Bcasts == 1 .. MaxBroadcast
Partner == "partner"
None == 0

\* The message a broadcast call b carries (notification n carries n).
BMsg(b) == 100 + b

VARIABLES
    \* ConnectionManager fields
    active_connections,      \* room -> sequence of [websocket, user_id]
    partner_connections,     \* user -> [websocket, user_id]
    user_connection_counts,  \* user -> Int (defaultdict(int))
    room_connection_counts,  \* room -> Int (defaultdict(int))
    message_queues,          \* user -> sequence of messages (defaultdict(deque))
    heartbeat_tasks,         \* <<user, room>> -> task (named by its socket)
    last_heartbeat,          \* set of keys <<user, room>> holding a timestamp
    shutting_down,
    \* configuration (app.config.settings)
    settings,
    \* asyncio tasks and sockets
    task,                    \* socket -> state of the heartbeat_loop task made for it
    sock,                    \* socket -> "fresh" | "open" | "dead" | "closed"
    code,                    \* socket -> close code sent by the server (0: none)
    rcvd,                    \* socket -> sequence of [m, via] the peer received
    handler,                 \* socket -> the endpoint task handling it
    notif,                   \* n -> the task running _send_notification(user, n)
    bcast,                   \* b -> the task running broadcast_to_event(room, BMsg(b))
    shut,                    \* the task running shutdown()
    request,                 \* what the latest endpoint invocation was given
    inbound,                 \* socket -> the client texts its handler has read
    activity,                \* last_activity writes of the pong branch:
                             \*   <<socket of the record written, socket read from>>
    \* history
    enq,                     \* user -> messages handed to the queue since its last drain
    offq,                    \* user -> messages handed to the queue, with no presence
                             \*         connection, since the last presence open
    replaced,                \* presence sockets whose slot was overwritten
    flushlog                 \* socket -> [taken, lost] of the flush run for it

vars == <<active_connections, partner_connections, user_connection_counts,
          room_connection_counts, message_queues, heartbeat_tasks, last_heartbeat,
          shutting_down, settings, task, sock, code, rcvd, handler, notif, bcast,
          shut, request, inbound, activity, enq, offq, replaced, flushlog>>

\* ------------------------------------------------------------ dict helpers
Has(d, k) == k \in DOMAIN d
Get(d, k, dflt) == IF k \in DOMAIN d THEN d[k] ELSE dflt
Put(d, k, v) == [x \in DOMAIN d \cup {k} |-> IF x = k THEN v ELSE d[x]]
Del(d, k) == [x \in DOMAIN d \ {k} |-> d[x]]
EmptyDict == <<>>

RemoveAt(seq, i) == SubSeq(seq, 1, i - 1) \o SubSeq(seq, i + 1, Len(seq))
Min(S) == CHOOSE x \in S : \A y \in S : x <= y

\* The part of the state the manager's methods read and write, as one record, so
\* that the statements of a method compose in program order.
Cur ==
    [active_connections |-> active_connections,
     partner_connections |-> partner_connections,
     user_connection_counts |-> user_connection_counts,
     room_connection_counts |-> room_connection_counts,
     message_queues |-> message_queues,
     heartbeat_tasks |-> heartbeat_tasks,
     last_heartbeat |-> last_heartbeat,
     shutting_down |-> shutting_down,
     settings |-> settings,
     task |-> task, sock |-> sock, code |-> code, rcvd |-> rcvd, bcast |-> bcast,
     shut |-> shut, request |-> request, inbound |-> inbound, activity |-> activity,
     enq |-> enq, offq |-> offq]

Commit(W) ==
    /\ active_connections' = W.active_connections
    /\ partner_connections' = W.partner_connections
    /\ user_connection_counts' = W.user_connection_counts
    /\ room_connection_counts' = W.room_connection_counts
    /\ message_queues' = W.message_queues
    /\ heartbeat_tasks' = W.heartbeat_tasks
    /\ last_heartbeat' = W.last_heartbeat
    /\ shutting_down' = W.shutting_down
    /\ settings' = W.settings
    /\ task' = W.task
    /\ sock' = W.sock
    /\ code' = W.code
    /\ rcvd' = W.rcvd
    /\ bcast' = W.bcast
    /\ shut' = W.shut
    /\ request' = W.request
    /\ inbound' = W.inbound
    /\ activity' = W.activity
    /\ enq' = W.enq
    /\ offq' = W.offq

\* ------------------------------------------------------------------ sockets
\* websocket.send_json succeeds exactly on a socket that is still open.
SendOk(W, s) == W.sock[s] = "open"

Deliver(W, s, m, via) == [W EXCEPT !.rcvd[s] = Append(@, [m |-> m, via |-> via])]

\* websocket.close(code): the peer of an open socket receives the close frame.
Close(W, s, c) ==
    IF W.sock[s] = "open"
    THEN [W EXCEPT !.sock[s] = "closed", !.code[s] = c]
    ELSE W

\* ------------------------------------------------------------ offline queue
\* deque(maxlen = WS_MESSAGE_QUEUE_SIZE).append
DequeAppend(q, m, maxlen) ==
    IF Len(q) >= maxlen THEN Append(Tail(q), m) ELSE Append(q, m)

\* History: every message handed to queue_message_for_user, kept or dropped.
Handed(W, u, m) ==
    [W EXCEPT !.enq[u] = Append(@, m),
              !.offq[u] = IF Has(W.partner_connections, u) THEN @ ELSE Append(@, m)]

\* Variant of the hand-over that leaves eviction to the deque: the oldest goes.
queue_message_for_user_DropOldest(W, u, m) ==
    LET q == Get(W.message_queues, u, <<>>)
    IN  [Handed(W, u, m) EXCEPT !.message_queues =
            Put(@, u, DequeAppend(q, m, W.settings.WS_MESSAGE_QUEUE_SIZE))]

queue_message_for_user(W, u, m) ==
    LET q == Get(W.message_queues, u, <<>>)
    IN  IF Len(q) < W.settings.WS_MESSAGE_QUEUE_SIZE
        THEN [Handed(W, u, m) EXCEPT !.message_queues =
                 Put(@, u, DequeAppend(q, m, W.settings.WS_MESSAGE_QUEUE_SIZE))]
        ELSE [Handed(W, u, m) EXCEPT !.message_queues = Put(@, u, q)]

\* Whether queue_message_for_user would keep a message now.
QueueHasRoom(W, u) ==
    Len(Get(W.message_queues, u, <<>>)) < W.settings.WS_MESSAGE_QUEUE_SIZE

\* ---------------------------------------------------------------- heartbeat
\* asyncio.Task.cancel(): a task that has not run yet is cancelled without ever
\* entering its body; a suspended one gets CancelledError at its await.
CancelTask(W, t) ==
    [W EXCEPT !.task[t] = CASE @ = "new" -> "newC"
                            [] @ \in {"sleep", "ping", "closing"} -> "cancel"
                            [] OTHER -> @]

_start_heartbeat(W, s, key) ==
    IF W.shutting_down
    THEN W
    ELSE LET W1 == IF Has(W.heartbeat_tasks, key)
                   THEN CancelTask(W, W.heartbeat_tasks[key])
                   ELSE W
         IN  [W1 EXCEPT !.task[s] = "new", !.heartbeat_tasks = Put(@, key, s)]

\* The finally block of heartbeat_loop.
HeartbeatFinally(W, s, key) ==
    [W EXCEPT !.heartbeat_tasks = IF Has(@, key) THEN Del(@, key) ELSE @,
              !.last_heartbeat = @ \ {key},
              !.task[s] = "done"]

\* _stop_heartbeat after its await (or when there was nothing to await).
StopHeartbeatEnd(W, key) == [W EXCEPT !.last_heartbeat = @ \ {key}]

\* _stop_heartbeat up to "await task": wait is the task awaited, None when the
\* method ran to its end without suspending.
StopHeartbeatBegin(W, key) ==
    IF Has(W.heartbeat_tasks, key)
    THEN LET t == W.heartbeat_tasks[key]
             W1 == CancelTask([W EXCEPT !.heartbeat_tasks = Del(@, key)], t)
         IN  IF W1.task[t] = "done"
             THEN [W |-> StopHeartbeatEnd(W1, key), wait |-> None]
             ELSE [W |-> W1, wait |-> t]
    ELSE [W |-> StopHeartbeatEnd(W, key), wait |-> None]

\* ----------------------------------------------------- shutdown (iterators)
\* closing, calls, had: history (the sockets a close was attempted on; how many
\* times shutdown was called; what existed when it was last called).
IdleShut ==
    [pc |-> "idle", size |-> 0, todo |-> {}, again |-> {}, room |-> "none",
     live |-> FALSE, list |-> <<>>, idx |-> 0, ws |-> None, closing |-> <<>>,
     calls |-> 0,
     had |-> [conns |-> FALSE, queued |-> FALSE, inflight |-> FALSE, socks |-> {}]]

\* Key k is deleted from the dict the loop in phase ph of shutdown iterates: the
\* list the loop holds is detached, and a later entry for k would be a new one.
ShutForget(sh, ph, k) ==
    IF sh.pc # ph
    THEN sh
    ELSE [sh EXCEPT !.again = @ \cup {k},
                    !.todo = @ \ {k},
                    !.live = IF sh.room = k THEN FALSE ELSE @,
                    !.list = IF sh.room = k /\ sh.live THEN <<>> ELSE @]

\* --------------------------------------------------------------- disconnect
\* Lines 108-111: the defaultdict read creates the room's list when it is absent.
DisconnectCleanup(W, r) ==
    IF Get(W.active_connections, r, <<>>) = <<>>
    THEN LET W1 == [W EXCEPT
                     !.active_connections = Del(@, r),
                     !.bcast = [b \in DOMAIN @ |->
                                  IF @[b].room = r /\ @[b].live
                                  THEN [@[b] EXCEPT !.live = FALSE, !.list = <<>>]
                                  ELSE @[b]],
                     !.shut = ShutForget(@, "rooms", r)]
         IN  IF Has(W.room_connection_counts, r)
             THEN [W |-> [W1 EXCEPT !.room_connection_counts = Del(@, r)],
                   wait |-> None, raised |-> FALSE, key |-> <<>>]
             ELSE [W |-> W1, wait |-> None, raised |-> TRUE, key |-> <<>>]
    ELSE [W |-> W, wait |-> None, raised |-> FALSE, key |-> <<>>]

\* disconnect(websocket, event_id) up to its first suspension.
DisconnectBegin(W, s, r) ==
    IF ~Has(W.active_connections, r)
    THEN [W |-> W, wait |-> None, raised |-> FALSE, key |-> <<>>]
    ELSE LET L == W.active_connections[r]
             I == {i \in 1 .. Len(L) : L[i].websocket = s}
         IN  IF I = {}
             THEN DisconnectCleanup(W, r)
             ELSE LET i == Min(I)
                      u == L[i].user_id
                      W1 == [W EXCEPT
                               !.active_connections[r] = RemoveAt(L, i),
                               !.user_connection_counts = Put(@, u, Get(@, u, 0) - 1),
                               !.room_connection_counts = Put(@, r, Get(@, r, 0) - 1)]
                      R == StopHeartbeatBegin(W1, <<u, r>>)
                  IN  IF R.wait = None
                      THEN DisconnectCleanup(R.W, r)
                      ELSE [W |-> R.W, wait |-> R.wait, raised |-> FALSE,
                            key |-> <<u, r>>]

\* disconnect resumed after "await task" in _stop_heartbeat.
DisconnectResume(W, key) == DisconnectCleanup(StopHeartbeatEnd(W, key), key[2])

\* disconnect_partner: "del self.partner_connections[user_id]" and what follows.
DisconnectPartnerEnd(W, u) ==
    IF Has(W.partner_connections, u)
    THEN [W |-> [W EXCEPT !.partner_connections = Del(@, u),
                          !.shut = ShutForget(@, "partners", u)],
          wait |-> None, raised |-> FALSE, key |-> <<>>]
    ELSE [W |-> W, wait |-> None, raised |-> TRUE, key |-> <<>>]

\* disconnect_partner(user_id) up to its first suspension.
DisconnectPartnerBegin(W, u) ==
    IF Has(W.partner_connections, u)
    THEN LET W1 == [W EXCEPT !.user_connection_counts = Put(@, u, Get(@, u, 0) - 1)]
             R == StopHeartbeatBegin(W1, <<u, Partner>>)
         IN  IF R.wait = None
             THEN DisconnectPartnerEnd(R.W, u)
             ELSE [W |-> R.W, wait |-> R.wait, raised |-> FALSE,
                   key |-> <<u, Partner>>]
    ELSE [W |-> W, wait |-> None, raised |-> FALSE, key |-> <<>>]

DisconnectPartnerResume(W, key) == DisconnectPartnerEnd(StopHeartbeatEnd(W, key), key[1])

\* ------------------------------------------------------------------ connect
UserAtMax(W, u) ==
    Get(W.user_connection_counts, u, 0) >= W.settings.WS_MAX_CONNECTIONS_PER_USER

\* Variant of the room check that admits one member more than the maximum.
RoomAtMax_Over(W, r) ==
    Get(W.room_connection_counts, r, 0) > W.settings.WS_MAX_CONNECTIONS_PER_ROOM

RoomAtMax(W, r) ==
    Get(W.room_connection_counts, r, 0) >= W.settings.WS_MAX_CONNECTIONS_PER_ROOM

Reverse(q) == [i \in 1 .. Len(q) |-> q[Len(q) + 1 - i]]

\* Variant of the flush that sends the newest queued message first.
SendQueuedBegin_Lifo(W, u) ==
    IF Has(W.message_queues, u) /\ W.message_queues[u] # <<>>
    THEN [W |-> [W EXCEPT !.message_queues[u] = <<>>, !.enq[u] = <<>>],
          taken |-> Reverse(W.message_queues[u])]
    ELSE [W |-> W, taken |-> <<>>]

\* Variant of the flush that copies the queue and does not clear it.
SendQueuedBegin_Keep(W, u) ==
    IF Has(W.message_queues, u) /\ W.message_queues[u] # <<>>
    THEN [W |-> W, taken |-> W.message_queues[u]]
    ELSE [W |-> W, taken |-> <<>>]

\* send_queued_messages up to its first send: the queue is copied and cleared.
SendQueuedBegin(W, u) ==
    IF Has(W.message_queues, u) /\ W.message_queues[u] # <<>>
    THEN [W |-> [W EXCEPT !.message_queues[u] = <<>>, !.enq[u] = <<>>],
          taken |-> W.message_queues[u]]
    ELSE [W |-> W, taken |-> <<>>]

\* Line 83: the log line reads both defaultdict counters.
ConnectLog(W, u, r) ==
    [W EXCEPT !.user_connection_counts = Put(@, u, Get(@, u, 0)),
              !.room_connection_counts = Put(@, r, Get(@, r, 0))]

\* connect(websocket, event_id, user) up to its return or its first send.
connect(W, s, r, u) ==
    LET W0 == [W EXCEPT !.user_connection_counts = Put(@, u, Get(@, u, 0))]
    IN  IF UserAtMax(W0, u)
        THEN [W |-> Close(W0, s, 1008), out |-> "rejected", taken |-> <<>>]
        ELSE LET W1 == [W0 EXCEPT !.room_connection_counts = Put(@, r, Get(@, r, 0))]
             IN  IF RoomAtMax(W1, r)
                 THEN [W |-> Close(W1, s, 1008), out |-> "rejected", taken |-> <<>>]
                 ELSE LET W2 == [W1 EXCEPT
                                  !.active_connections =
                                      Put(@, r, Append(Get(@, r, <<>>),
                                                       [websocket |-> s, user_id |-> u])),
                                  !.user_connection_counts[u] = @ + 1,
                                  !.room_connection_counts[r] = @ + 1]
                          W3 == _start_heartbeat(W2, s, <<u, r>>)
                          F == SendQueuedBegin(W3, u)
                      IN  IF F.taken = <<>>
                          THEN [W |-> ConnectLog(F.W, u, r), out |-> "recv",
                                taken |-> <<>>]
                          ELSE [W |-> F.W, out |-> "flush", taken |-> F.taken]

\* connect_partner(websocket, user) up to its return or its first send.
connect_partner(W, s, u) ==
    LET W0 == [W EXCEPT !.user_connection_counts = Put(@, u, Get(@, u, 0))]
    IN  IF UserAtMax(W0, u)
        THEN [W |-> Close(W0, s, 1008), out |-> "rejected", taken |-> <<>>]
        ELSE LET W2 == [W0 EXCEPT
                         !.partner_connections =
                             Put(@, u, [websocket |-> s, user_id |-> u]),
                         !.user_connection_counts[u] = @ + 1]
                 W3 == _start_heartbeat(W2, s, <<u, Partner>>)
                 F == SendQueuedBegin(W3, u)
             IN  IF F.taken = <<>>
                 THEN [W |-> F.W, out |-> "recv", taken |-> <<>>]
                 ELSE [W |-> F.W, out |-> "flush", taken |-> F.taken]

\* ---------------------------------------------------------------- endpoints
\* What an endpoint invocation is given: the token of the query string (absent,
\* not naming a user, or naming one), the event id of the path (not an ObjectId,
\* naming no event, or naming one), whether the database is reachable, and
\* whether the user is an attendee or the creator of the event.
Requests ==
    [token : {"missing", "invalid", "valid"},
     event : {"malformed", "absent", "found"},
     db : BOOLEAN, member : BOOLEAN]

NoRequest ==
    [sock |-> None, kind |-> "none", token |-> "valid", event |-> "found",
     db |-> TRUE, member |-> TRUE]

Req(s, kind, q) ==
    [sock |-> s, kind |-> kind, token |-> q.token, event |-> q.event,
     db |-> q.db, member |-> q.member]

\* Variant of the checks of event_websocket that leaves out the membership check.
EventAdmission_AnyUser(q) ==
    IF q.token = "missing" THEN 1008
    ELSE IF q.token = "invalid" THEN 4001
    ELSE IF q.event = "malformed" THEN 1003
    ELSE IF ~q.db THEN 1011
    ELSE IF q.event = "absent" THEN 1003
    ELSE 0

\* The checks of event_websocket before websocket.accept(), in the order of the
\* code: the close code of the first one that fails, 0 when all pass.
EventAdmission(q) ==
    IF q.token = "missing" THEN 1008
    ELSE IF q.token = "invalid" THEN 4001
    ELSE IF q.event = "malformed" THEN 1003
    ELSE IF ~q.db THEN 1011
    ELSE IF q.event = "absent" THEN 1003
    ELSE IF ~q.member THEN 4003
    ELSE 0

\* The checks of partner_websocket before websocket.accept().
PartnerAdmission(q) ==
    IF q.token = "missing" THEN 1008
    ELSE IF q.token = "invalid" THEN 4001
    ELSE 0

\* websocket.close(code) on a socket that was not accepted.
Refuse(W, s, c) == [W EXCEPT !.sock[s] = "closed", !.code[s] = c]

\* ----------------------------------------------------------------- handlers
NoFlush == [taken |-> <<>>, handed |-> <<>>, offline |-> <<>>, lost |-> {},
            done |-> FALSE]

IdleHandler ==
    [pc |-> "idle", kind |-> "none", user |-> "none", room |-> "none",
     flush |-> <<>>, wait |-> None, key |-> <<>>]

KeyOf(s) ==
    <<handler[s].user, IF handler[s].kind = "room" THEN handler[s].room ELSE Partner>>

\* Endpoint invocations happen in socket order: socket s names the s-th attempt.
NextAttempt(s) ==
    /\ handler[s].pc = "idle"
    /\ IF s = 1 THEN TRUE ELSE handler[s - 1].pc # "idle"

InQueue(W, u, m) ==
    \E i \in 1 .. Len(Get(W.message_queues, u, <<>>)) : W.message_queues[u][i] = m

OnSocket(W, s, m) == \E i \in 1 .. Len(W.rcvd[s]) : W.rcvd[s][i].m = m

SeqSet(q) == {q[i] : i \in 1 .. Len(q)}

\* What the flush for socket s lost: taken, neither received on s nor queued.
FlushLost(W, s, u, taken) ==
    {m \in SeqSet(taken) : ~OnSocket(W, s, m) /\ ~InQueue(W, u, m)}

\* handle_websocket_connection(websocket, event_id, user) up to the first
\* suspension of manager.connect or its return, from the state W.
Join(W, s, r, u) ==
    /\ LET R == connect(W, s, r, u)
       IN  /\ Commit(R.W)
           /\ handler' = [handler EXCEPT ![s] =
                  [pc |-> R.out, kind |-> "room", user |-> u, room |-> r,
                   flush |-> R.taken, wait |-> None, key |-> <<>>]]
           /\ flushlog' = [flushlog EXCEPT ![s] =
                  [NoFlush EXCEPT !.taken = R.taken, !.done = R.out = "recv",
                      !.handed = IF R.out = "rejected" THEN <<>> ELSE enq[u]]]
    /\ UNCHANGED <<notif, replaced>>

\* event_websocket -> handle_websocket_connection -> manager.connect
Connect(s, r, u) ==
    /\ NextAttempt(s)
    /\ Join([Cur EXCEPT !.sock[s] = "open"], s, r, u)

\* handle_partner_websocket_connection(websocket, user) up to the first
\* suspension of manager.connect_partner or its return, from the state W.
Open(W, s, u) ==
    /\ LET R == connect_partner(W, s, u)
       IN  /\ Commit(IF R.out = "rejected" THEN R.W ELSE [R.W EXCEPT !.offq[u] = <<>>])
           /\ handler' = [handler EXCEPT ![s] =
                  [pc |-> R.out, kind |-> "partner", user |-> u, room |-> Partner,
                   flush |-> R.taken, wait |-> None, key |-> <<>>]]
           /\ flushlog' = [flushlog EXCEPT ![s] =
                  [NoFlush EXCEPT !.taken = R.taken, !.done = R.out = "recv",
                      !.handed = IF R.out = "rejected" THEN <<>> ELSE enq[u],
                      !.offline = IF R.out = "rejected" THEN <<>> ELSE offq[u]]]
           /\ replaced' = IF R.out # "rejected" /\ Has(partner_connections, u)
                          THEN replaced \cup {partner_connections[u].websocket}
                          ELSE replaced
    /\ UNCHANGED notif

\* partner_websocket -> handle_partner_websocket_connection -> manager.connect_partner
ConnectPartner(s, u) ==
    /\ NextAttempt(s)
    /\ Open([Cur EXCEPT !.sock[s] = "open"], s, u)

\* event_websocket(websocket, event_id) given q, the token naming user u: the
\* socket is closed with the code of the first failing check, or accepted and
\* handed to handle_websocket_connection.
EventWebsocket(s, r, u, q) ==
    /\ NextAttempt(s)
    /\ LET W0 == [Cur EXCEPT !.request = Req(s, "room", q)]
       IN  IF EventAdmission(q) # 0
           THEN /\ Commit(Refuse(W0, s, EventAdmission(q)))
                /\ handler' = [handler EXCEPT ![s] =
                       [IdleHandler EXCEPT !.pc = "refused", !.kind = "room",
                                           !.room = r]]
                /\ UNCHANGED <<notif, replaced, flushlog>>
           ELSE Join([W0 EXCEPT !.sock[s] = "open"], s, r, u)

\* partner_websocket(websocket) given the token tok, naming user u.
PartnerWebsocket(s, u, tok) ==
    /\ NextAttempt(s)
    /\ LET q == [NoRequest EXCEPT !.token = tok]
           W0 == [Cur EXCEPT !.request = Req(s, "partner", q)]
       IN  IF PartnerAdmission(q) # 0
           THEN /\ Commit(Refuse(W0, s, PartnerAdmission(q)))
                /\ handler' = [handler EXCEPT ![s] =
                       [IdleHandler EXCEPT !.pc = "refused", !.kind = "partner",
                                           !.room = Partner]]
                /\ UNCHANGED <<notif, replaced, flushlog>>
           ELSE Open([W0 EXCEPT !.sock[s] = "open"], s, u)

\* One send of send_queued_messages, and the rest of connect after the last one.
FlushSend(s) ==
    /\ handler[s].pc = "flush"
    /\ LET h == handler[s]
           m == Head(h.flush)
           W1 == IF SendOk(Cur, s)
                 THEN Deliver(Cur, s, m, "flush")
                 ELSE queue_message_for_user(Cur, h.user, m)
           last == Tail(h.flush) = <<>>
           W2 == IF last /\ h.kind = "room" THEN ConnectLog(W1, h.user, h.room) ELSE W1
       IN  /\ Commit(W2)
           /\ handler' = [handler EXCEPT ![s].flush = Tail(h.flush),
                                         ![s].pc = IF last THEN "recv" ELSE "flush"]
           /\ flushlog' = IF last
                          THEN [flushlog EXCEPT ![s].done = TRUE,
                                   ![s].lost = FlushLost(W1, s, h.user, flushlog[s].taken)]
                          ELSE flushlog
    /\ UNCHANGED <<notif, replaced>>

ExitPc(R) == IF R.raised THEN "raised" ELSE IF R.wait # None THEN "stop" ELSE "done"

\* receive_text raises (peer gone or socket closed): the finally block runs.
HandlerExit(s) ==
    /\ handler[s].pc = "recv"
    /\ sock[s] # "open"
    /\ LET h == handler[s]
           R == IF h.kind = "room"
                THEN DisconnectBegin(Cur, s, h.room)
                ELSE DisconnectPartnerBegin(Cur, h.user)
       IN  /\ Commit(R.W)
           /\ handler' = [handler EXCEPT ![s].pc = ExitPc(R), ![s].wait = R.wait,
                                         ![s].key = R.key]
    /\ UNCHANGED <<notif, replaced, flushlog>>

\* The awaited heartbeat task has finished: disconnect / disconnect_partner resume.
HandlerResume(s) ==
    /\ handler[s].pc = "stop"
    /\ task[handler[s].wait] = "done"
    /\ LET h == handler[s]
           R == IF h.kind = "room"
                THEN DisconnectResume(Cur, h.key)
                ELSE DisconnectPartnerResume(Cur, h.key)
       IN  /\ Commit(R.W)
           /\ handler' = [handler EXCEPT ![s].pc = ExitPc(R), ![s].wait = None]
    /\ UNCHANGED <<notif, replaced, flushlog>>

\* The texts a client sends: a JSON object with a type (a ping carries the
\* client's timestamp), a JSON text that is not an object (a number, a string, a
\* list, null), or a text that is not JSON.
Texts ==
    {[form |-> "object", type |-> "ping", ts |-> x] : x \in 1 .. 2}
    \cup {[form |-> "object", type |-> y, ts |-> 0] : y \in {"pong", "chat"}}
    \cup {[form |-> f, type |-> "none", ts |-> 0] : f \in {"value", "plain"}}

\* The number of texts read so far, on the sockets in S.
RECURSIVE SumLen(_, _)
SumLen(f, S) ==
    IF S = {}
    THEN 0
    ELSE LET x == CHOOSE y \in S : TRUE IN Len(f[x]) + SumLen(f, S \ {x})

\* Lines 387-392 and 425-428: the pong branch writes last_activity of the record
\* it finds, the member of its room holding this websocket, or the record in the
\* presence slot of its user.
PongActivity(W, s, h) ==
    IF h.kind = "room"
    THEN IF \E i \in 1 .. Len(Get(W.active_connections, h.room, <<>>)) :
                W.active_connections[h.room][i].websocket = s
         THEN [W EXCEPT !.activity = @ \cup {<<s, s>>}]
         ELSE W
    ELSE IF Has(W.partner_connections, h.user)
         THEN [W EXCEPT !.activity =
                  @ \cup {<<W.partner_connections[h.user].websocket, s>>}]
         ELSE W

\* receive_text returns the text d and the loop body runs: json.loads, then the
\* branch on message.get('type'). A text that is not JSON raises JSONDecodeError,
\* which is caught and logged; a JSON text that is not an object has no get, so
\* AttributeError leaves the loop and the finally block runs.
HandlerReceive(s, d) ==
    /\ handler[s].pc = "recv"
    /\ sock[s] = "open"
    /\ SumLen(inbound, Sockets) < MaxInbound
    /\ LET h == handler[s]
           W0 == [Cur EXCEPT !.inbound[s] = Append(@, d)]
       IN  IF d.form = "value"
           THEN LET R == IF h.kind = "room"
                         THEN DisconnectBegin(W0, s, h.room)
                         ELSE DisconnectPartnerBegin(W0, h.user)
                IN  /\ Commit(R.W)
                    /\ handler' = [handler EXCEPT ![s].pc = ExitPc(R),
                                       ![s].wait = R.wait, ![s].key = R.key]
           ELSE /\ Commit(CASE d.form = "plain" -> W0
                            [] d.type = "ping" -> Deliver(W0, s, d.ts, "pong")
                            [] d.type = "pong" -> PongActivity(W0, s, h)
                            [] OTHER -> W0)
                /\ handler' = handler
    /\ UNCHANGED <<notif, replaced, flushlog>>

\* The peer goes away: later sends fail and receive_text raises.
PeerDrop(s) ==
    /\ sock[s] = "open"
    /\ sock' = [sock EXCEPT ![s] = "dead"]
    /\ UNCHANGED <<active_connections, partner_connections, user_connection_counts,
                   room_connection_counts, message_queues, heartbeat_tasks,
                   last_heartbeat, shutting_down, settings, task, code, rcvd,
                   handler, notif, bcast, shut, request, inbound, activity, enq,
                   offq, replaced, flushlog>>

\* ----------------------------------------------------------- heartbeat_loop
\* First step of the task: cancelled before it ran, it never enters its body.
HbStart(s) ==
    /\ task[s] \in {"new", "newC"}
    /\ Commit(IF task[s] = "newC"
              THEN [Cur EXCEPT !.task[s] = "done"]
              ELSE IF shutting_down
                   THEN HeartbeatFinally(Cur, s, KeyOf(s))
                   ELSE [Cur EXCEPT !.task[s] = "sleep"])
    /\ UNCHANGED <<handler, notif, replaced, flushlog>>

\* sleep, then the ping is sent: last_heartbeat is set, or the send raises.
HbPing(s) ==
    /\ task[s] = "sleep"
    /\ Commit(IF SendOk(Cur, s)
              THEN LET W1 == [Cur EXCEPT !.last_heartbeat = @ \cup {KeyOf(s)}]
                   IN  IF shutting_down THEN HeartbeatFinally(W1, s, KeyOf(s)) ELSE W1
              ELSE [Close(Cur, s, 1008) EXCEPT !.task[s] = "closing"])
    /\ UNCHANGED <<handler, notif, replaced, flushlog>>

\* The ping does not complete within WS_PING_TIMEOUT: the socket is closed.
HbTimeout(s) ==
    /\ task[s] = "sleep"
    /\ sock[s] = "open"
    /\ Commit([Close(Cur, s, 1008) EXCEPT !.task[s] = "closing"])
    /\ UNCHANGED <<handler, notif, replaced, flushlog>>

\* asyncio.sleep returns and the ping's send_json begins: the finer-grained first
\* half of HbPing, for the behaviours in which the two awaits are told apart.
HbWake(s) ==
    /\ task[s] = "sleep"
    /\ Commit([Cur EXCEPT !.task[s] = "ping"])
    /\ UNCHANGED <<handler, notif, replaced, flushlog>>

\* The ping's send_json returns or raises: the second half of HbPing.
HbSend(s) ==
    /\ task[s] = "ping"
    /\ Commit(IF SendOk(Cur, s)
              THEN LET W1 == [Cur EXCEPT !.last_heartbeat = @ \cup {KeyOf(s)}]
                   IN  IF shutting_down
                       THEN HeartbeatFinally(W1, s, KeyOf(s))
                       ELSE [W1 EXCEPT !.task[s] = "sleep"]
              ELSE [Close(Cur, s, 1008) EXCEPT !.task[s] = "closing"])
    /\ UNCHANGED <<handler, notif, replaced, flushlog>>

\* The close returned, or CancelledError arrived: the finally block runs.
HbEnd(s) ==
    /\ task[s] \in {"closing", "cancel"}
    /\ Commit(HeartbeatFinally(Cur, s, KeyOf(s)))
    /\ UNCHANGED <<handler, notif, replaced, flushlog>>

\* ------------------------------------------------------- _send_notification
IdleNotif == [pc |-> "idle", user |-> "none", ws |-> None, wait |-> None,
              key |-> <<>>, sent |-> FALSE, queued |-> FALSE, dropped |-> FALSE,
              facade |-> FALSE, behind |-> {}]

NextCall(n) ==
    /\ notif[n].pc = "idle"
    /\ IF n = 1 THEN TRUE ELSE notif[n - 1].pc # "idle"

\* The call's queue_message_for_user(user, n), with its outcome recorded.
NotifyQueue(W, n, u, rec) ==
    /\ Commit(queue_message_for_user(W, u, n))
    /\ notif' = [notif EXCEPT ![n] =
           [rec EXCEPT !.pc = "done", !.wait = None,
                       !.queued = QueueHasRoom(W, u),
                       !.dropped = ~QueueHasRoom(W, u)]]

\* The messages of the flush for socket s whose send has not begun: all that
\* the flush still holds but the one it is suspended on.
NotBegun(s) ==
    IF handler[s].pc = "flush" THEN SeqSet(Tail(handler[s].flush)) ELSE {}

\* notify_*(user, ...) -> _send_notification(user, n) up to its send or its return.
\* behind is history: the flushed messages whose send begins after this one's.
NotifyCall(n, u) ==
    /\ NextCall(n)
    /\ IF Has(partner_connections, u)
       THEN /\ notif' = [notif EXCEPT ![n] =
                   [IdleNotif EXCEPT !.pc = "send", !.user = u,
                       !.ws = partner_connections[u].websocket,
                       !.behind = NotBegun(partner_connections[u].websocket)]]
            /\ Commit(Cur)
       ELSE NotifyQueue(Cur, n, u, [IdleNotif EXCEPT !.user = u])
    /\ UNCHANGED <<handler, replaced, flushlog>>

\* The send returns or raises; lines 190-195.
NotifySend(n) ==
    /\ notif[n].pc = "send"
    /\ LET r == notif[n]
           u == r.user
       IN  IF SendOk(Cur, r.ws)
           THEN LET W1 == Deliver(Cur, r.ws, n, "direct")
                IN  IF Has(partner_connections, u)
                    THEN /\ Commit(W1)
                         /\ notif' = [notif EXCEPT ![n].pc = "done", ![n].sent = TRUE]
                    ELSE NotifyQueue(W1, n, u, [r EXCEPT !.sent = TRUE])
           ELSE LET R == DisconnectPartnerBegin(Cur, u)
                IN  IF R.wait # None
                    THEN /\ Commit(R.W)
                         /\ notif' = [notif EXCEPT ![n].pc = "stop",
                                         ![n].wait = R.wait, ![n].key = R.key]
                    ELSE NotifyQueue(R.W, n, u, r)
    /\ UNCHANGED <<handler, replaced, flushlog>>

\* disconnect_partner resumes inside the except block of _send_notification.
NotifyResume(n) ==
    /\ notif[n].pc = "stop"
    /\ task[notif[n].wait] = "done"
    /\ LET r == notif[n]
           R == DisconnectPartnerResume(Cur, r.key)
       IN  IF R.raised
           THEN /\ Commit(R.W)
                /\ notif' = [notif EXCEPT ![n].pc = "raised", ![n].wait = None]
           ELSE NotifyQueue(R.W, n, r.user, r)
    /\ UNCHANGED <<handler, replaced, flushlog>>

\* The coroutine methods of ConnectionManager, by attribute name.
ManagerMethods ==
    {"connect", "disconnect", "broadcast_to_event", "connect_partner",
     "disconnect_partner", "_send_notification", "notify_partner_disconnection",
     "notify_partner_connection", "notify_proposal_created",
     "notify_proposal_updated", "notify_event_created", "notify_event_deleted",
     "send_personal_message", "send_queued_messages", "_start_heartbeat",
     "_stop_heartbeat", "shutdown"}

\* NotificationService.notify_*(user, ...): the message is built and
\* self.manager.send_notification(user, message) is called; looking up an
\* attribute the manager does not have raises AttributeError to the caller.
ServiceNotify(n, u) ==
    IF "send_notification" \in ManagerMethods
    THEN NotifyCall(n, u)
    ELSE /\ NextCall(n)
         /\ notif' = [notif EXCEPT ![n] =
                [IdleNotif EXCEPT !.pc = "raised", !.user = u, !.facade = TRUE]]
         /\ Commit(Cur)
         /\ UNCHANGED <<handler, replaced, flushlog>>

\* -------------------------------------------------------- broadcast_to_event
\* start and tried are history: the members when the call began, and the sockets
\* a send was attempted on, in order.
IdleBcast == [pc |-> "idle", room |-> "none", excl |-> None, live |-> FALSE,
              list |-> <<>>, idx |-> 0, ws |-> None, disc |-> <<>>,
              wait |-> None, key |-> <<>>, start |-> {}, tried |-> <<>>]

\* Variant of the pass that iterates the member list of some other room.
View_Elsewhere(W, b) ==
    LET R == DOMAIN W.active_connections \ {W.bcast[b].room}
    IN  IF R = {}
        THEN Get(W.active_connections, W.bcast[b].room, <<>>)
        ELSE W.active_connections[CHOOSE r \in R : TRUE]

\* The list object the for loop of line 119 iterates.
View(W, b) ==
    IF W.bcast[b].live
    THEN Get(W.active_connections, W.bcast[b].room, <<>>)
    ELSE W.bcast[b].list

\* The list iterator's next element that is not exclude_websocket (0: exhausted).
NextIdx(view, idx, excl) ==
    LET P == {p \in idx + 1 .. Len(view) : view[p].websocket # excl}
    IN  IF P = {} THEN 0 ELSE Min(P)

\* Lines 134-135, from the head of disc, up to a suspension, a raise or the end.
RECURSIVE BroadcastCleanup(_, _, _)
BroadcastCleanup(W, r, disc) ==
    IF disc = <<>>
    THEN [W |-> W, pc |-> "done", wait |-> None, key |-> <<>>, disc |-> <<>>]
    ELSE LET R == DisconnectBegin(W, Head(disc), r)
         IN  IF R.raised
             THEN [W |-> R.W, pc |-> "raised", wait |-> None, key |-> <<>>,
                   disc |-> Tail(disc)]
             ELSE IF R.wait # None
                  THEN [W |-> R.W, pc |-> "stop", wait |-> R.wait, key |-> R.key,
                        disc |-> Tail(disc)]
                  ELSE BroadcastCleanup(R.W, r, Tail(disc))

\* The loop of lines 119-131 from the iterator's position to its next send.
BroadcastAdvance(W, b, rec) ==
    LET p == NextIdx(View(W, b), rec.idx, rec.excl)
    IN  IF p # 0
        THEN Commit([W EXCEPT !.bcast[b] =
                 [rec EXCEPT !.pc = "send", !.idx = p,
                             !.ws = View(W, b)[p].websocket,
                             !.tried = Append(@, View(W, b)[p].websocket)]])
        ELSE LET C == BroadcastCleanup(W, rec.room, rec.disc)
             IN  Commit([C.W EXCEPT !.bcast[b] =
                     [rec EXCEPT !.pc = C.pc, !.live = FALSE, !.list = <<>>,
                                 !.ws = None, !.wait = C.wait, !.key = C.key,
                                 !.disc = C.disc]])

BroadcastCall(b, r, x) ==
    /\ bcast[b].pc = "idle"
    /\ IF b = 1 THEN TRUE ELSE bcast[b - 1].pc # "idle"
    /\ IF ~Has(active_connections, r)
       THEN Commit([Cur EXCEPT !.bcast[b] =
                [IdleBcast EXCEPT !.pc = "done", !.room = r, !.excl = x]])
       ELSE LET rec == [IdleBcast EXCEPT !.room = r, !.excl = x, !.live = TRUE,
                           !.start = {active_connections[r][i].websocket :
                                          i \in 1 .. Len(active_connections[r])}]
            IN  BroadcastAdvance([Cur EXCEPT !.bcast[b] = rec], b, rec)
    /\ UNCHANGED <<handler, notif, replaced, flushlog>>

BroadcastSend(b) ==
    /\ bcast[b].pc = "send"
    /\ LET r == bcast[b]
       IN  IF SendOk(Cur, r.ws)
           THEN BroadcastAdvance(Deliver(Cur, r.ws, BMsg(b), "bcast"), b, r)
           ELSE BroadcastAdvance(Cur, b, [r EXCEPT !.disc = Append(@, r.ws)])
    /\ UNCHANGED <<handler, notif, replaced, flushlog>>

BroadcastResume(b) ==
    /\ bcast[b].pc = "stop"
    /\ task[bcast[b].wait] = "done"
    /\ LET r == bcast[b]
           R == DisconnectResume(Cur, r.key)
       IN  IF R.raised
           THEN Commit([R.W EXCEPT !.bcast[b].pc = "raised", !.bcast[b].wait = None])
           ELSE LET C == BroadcastCleanup(R.W, r.room, r.disc)
                IN  Commit([C.W EXCEPT !.bcast[b].pc = C.pc, !.bcast[b].wait = C.wait,
                                       !.bcast[b].key = C.key, !.bcast[b].disc = C.disc])
    /\ UNCHANGED <<handler, notif, replaced, flushlog>>

\* ----------------------------------------------------------------- shutdown
RoomOf(r) == Get(active_connections, r, <<>>)

\* The sockets registered in room r.
Members(r) == {RoomOf(r)[i].websocket : i \in 1 .. Len(RoomOf(r))}

\* Socket s is in a room's member list or in a presence slot.
Registered(s) ==
    \/ \E r \in DOMAIN active_connections : s \in Members(r)
    \/ \E u \in DOMAIN partner_connections : partner_connections[u].websocket = s

\* The orders in which a dict with keys in S may be iterated.
Orders(S) ==
    {f \in [1 .. Cardinality(S) -> S] : \A i, j \in DOMAIN f : f[i] = f[j] => i = j}

\* What the dict iterators of one step of shutdown do where the code leaves it
\* open: the order of the keys, and whether an entry deleted and inserted again
\* during the loop is still met by the iterator.
ShutChoices == [rooms : Orders(Rooms), users : Orders(Users), revisit : BOOLEAN]

FirstIn(ord, S) == ord[Min({i \in DOMAIN ord : ord[i] \in S})]

\* Lines 335-336: every task in heartbeat_tasks is cancelled (and not awaited).
CancelAll(W) ==
    LET T == {W.heartbeat_tasks[k] : k \in DOMAIN W.heartbeat_tasks}
    IN  [W EXCEPT !.task = [s \in DOMAIN @ |-> IF s \in T
                                                THEN CancelTask(W, s).task[s]
                                                ELSE @[s]]]

\* Variant of the clearing that keeps the offline queues.
ShutdownClear_KeepQueues(W) ==
    [W EXCEPT !.active_connections = EmptyDict,
              !.partner_connections = EmptyDict,
              !.user_connection_counts = EmptyDict,
              !.room_connection_counts = EmptyDict,
              !.heartbeat_tasks = EmptyDict,
              !.last_heartbeat = {},
              !.bcast = [b \in DOMAIN @ |->
                           IF @[b].live
                           THEN [@[b] EXCEPT !.live = FALSE,
                                    !.list = Get(W.active_connections, @[b].room, <<>>)]
                           ELSE @[b]],
              !.shut = [@ EXCEPT !.pc = "done", !.ws = None, !.live = FALSE,
                                 !.list = <<>>, !.todo = {}, !.again = {}]]

\* Lines 353-360: the seven clear() calls. A list that a broadcast still iterates
\* is dropped from the dict, not emptied.
ShutdownClear(W) ==
    [W EXCEPT !.active_connections = EmptyDict,
              !.partner_connections = EmptyDict,
              !.user_connection_counts = EmptyDict,
              !.room_connection_counts = EmptyDict,
              !.message_queues = EmptyDict,
              !.heartbeat_tasks = EmptyDict,
              !.last_heartbeat = {},
              !.enq = [u \in DOMAIN @ |-> <<>>],
              !.offq = [u \in DOMAIN @ |-> <<>>],
              !.bcast = [b \in DOMAIN @ |->
                           IF @[b].live
                           THEN [@[b] EXCEPT !.live = FALSE,
                                    !.list = Get(W.active_connections, @[b].room, <<>>)]
                           ELSE @[b]],
              !.shut = [@ EXCEPT !.pc = "done", !.ws = None, !.live = FALSE,
                                 !.list = <<>>, !.todo = {}, !.again = {}]]

\* A dict iterator's next(): RuntimeError when the dict's size has changed.
ShutRaise(W) ==
    [W EXCEPT !.shut = [@ EXCEPT !.pc = "raised", !.ws = None, !.live = FALSE,
                                 !.list = <<>>]]

\* Lines 346-350 from the iterator's position: up to the next close, a
\* RuntimeError, or the end of shutdown.
ShutdownPartners(W, o) ==
    LET sh == W.shut
        cand == (sh.todo \cup (IF o.revisit THEN sh.again ELSE {}))
                    \cap DOMAIN W.partner_connections
    IN  IF Cardinality(DOMAIN W.partner_connections) # sh.size
        THEN ShutRaise(W)
        ELSE IF cand = {}
             THEN ShutdownClear(W)
             ELSE LET u == FirstIn(o.users, cand)
                  IN  [W EXCEPT !.shut = [@ EXCEPT !.pc = "partners",
                                            !.ws = W.partner_connections[u].websocket,
                                            !.todo = @ \ {u}, !.again = @ \ {u}]]

\* The list the inner loop of line 340 iterates.
ShutView(W) ==
    IF W.shut.live
    THEN Get(W.active_connections, W.shut.room, <<>>)
    ELSE W.shut.list

\* Lines 339-344 from the iterators' position: up to the next close, a
\* RuntimeError, or the start of the loop over partner_connections.
RECURSIVE ShutdownRooms(_, _)
ShutdownRooms(W, o) ==
    LET sh == W.shut
        p == NextIdx(ShutView(W), sh.idx, None)
        cand == (sh.todo \cup (IF o.revisit THEN sh.again ELSE {}))
                    \cap DOMAIN W.active_connections
    IN  IF p # 0
        THEN [W EXCEPT !.shut = [@ EXCEPT !.pc = "rooms", !.idx = p,
                                          !.ws = ShutView(W)[p].websocket]]
        ELSE IF Cardinality(DOMAIN W.active_connections) # sh.size
             THEN ShutRaise(W)
             ELSE IF cand = {}
                  THEN ShutdownPartners(
                           [W EXCEPT !.shut = [@ EXCEPT !.pc = "partners",
                               !.live = FALSE, !.list = <<>>, !.ws = None,
                               !.size = Cardinality(DOMAIN W.partner_connections),
                               !.todo = DOMAIN W.partner_connections,
                               !.again = {}]], o)
                  ELSE LET r == FirstIn(o.rooms, cand)
                       IN  ShutdownRooms(
                               [W EXCEPT !.shut = [@ EXCEPT !.pc = "rooms", !.room = r,
                                   !.live = TRUE, !.list = <<>>, !.idx = 0,
                                   !.todo = @ \ {r}, !.again = @ \ {r}]], o)

\* shutdown() up to its first close, as call number n.
ShutdownBegin(W, o, n) ==
    LET W1 == CancelAll([W EXCEPT !.shutting_down = TRUE])
        W2 == [W1 EXCEPT !.shut = [IdleShut EXCEPT !.pc = "rooms", !.calls = n,
                  !.size = Cardinality(DOMAIN active_connections),
                  !.todo = DOMAIN active_connections,
                  !.had = [conns |-> /\ \E r \in DOMAIN active_connections :
                                            active_connections[r] # <<>>
                                     /\ partner_connections # <<>>,
                           queued |-> \E u \in DOMAIN message_queues :
                                          message_queues[u] # <<>>,
                           inflight |-> \E s \in Sockets :
                                          handler[s].pc = "stop",
                           socks |-> {s \in Sockets : Registered(s)}]]]
    IN  ShutdownRooms(W2, o)

ShutdownCall ==
    /\ shut.pc = "idle"
    /\ \E o \in ShutChoices : Commit(ShutdownBegin(Cur, o, 1))
    /\ UNCHANGED <<handler, notif, replaced, flushlog>>

\* shutdown() is called again after its first call has returned.
ShutdownAgain ==
    /\ shut.pc = "done"
    /\ shut.calls = 1
    /\ \E o \in ShutChoices : Commit(ShutdownBegin(Cur, o, 2))
    /\ UNCHANGED <<handler, notif, replaced, flushlog>>

\* A close of shutdown returns (or raises and is logged), and shutdown goes on.
ShutdownClose ==
    /\ shut.pc \in {"rooms", "partners"}
    /\ \E o \in ShutChoices :
          LET W1 == [Close(Cur, shut.ws, 1001) EXCEPT
                        !.shut.closing = Append(@, shut.ws), !.shut.ws = None]
          IN  Commit(IF shut.pc = "rooms"
                     THEN ShutdownRooms(W1, o)
                     ELSE ShutdownPartners(W1, o))
    /\ UNCHANGED <<handler, notif, replaced, flushlog>>

\* --------------------------------------------------------------------- init
InitWith(cfg) ==
    /\ active_connections = EmptyDict
    /\ partner_connections = EmptyDict
    /\ user_connection_counts = EmptyDict
    /\ room_connection_counts = EmptyDict
    /\ message_queues = EmptyDict
    /\ heartbeat_tasks = EmptyDict
    /\ last_heartbeat = {}
    /\ shutting_down = FALSE
    /\ settings = cfg
    /\ task = [s \in Sockets |-> "none"]
    /\ sock = [s \in Sockets |-> "fresh"]
    /\ code = [s \in Sockets |-> 0]
    /\ rcvd = [s \in Sockets |-> <<>>]
    /\ handler = [s \in Sockets |-> IdleHandler]
    /\ notif = [n \in Calls |-> IdleNotif]
    /\ bcast = [b \in Bcasts |-> IdleBcast]
    /\ shut = IdleShut
    /\ request = NoRequest
    /\ inbound = [s \in Sockets |-> <<>>]
    /\ activity = {}
    /\ enq = [u \in Users |-> <<>>]
    /\ offq = [u \in Users |-> <<>>]
    /\ replaced = {}
    /\ flushlog = [s \in Sockets |-> NoFlush]

Cfg(maxUser, maxRoom, queueSize) ==
    [WS_MAX_CONNECTIONS_PER_USER |-> maxUser,
     WS_MAX_CONNECTIONS_PER_ROOM |-> maxRoom,
     WS_MESSAGE_QUEUE_SIZE |-> queueSize]

\* ------------------------------------------------------------ step groups
HandlerSteps(SS) ==
    \E s \in SS : HandlerExit(s) \/ HandlerResume(s) \/ PeerDrop(s)

HeartbeatSteps(SS) ==
    \E s \in SS : HbStart(s) \/ HbPing(s) \/ HbTimeout(s) \/ HbEnd(s)

NotifySteps(NS, u) ==
    \E n \in NS : NotifyCall(n, u) \/ NotifySend(n) \/ NotifyResume(n)

BroadcastSteps(BS, r) ==
    \E b \in BS : BroadcastCall(b, r, None) \/ BroadcastSend(b) \/ BroadcastResume(b)

\* --------------------------------------------------------- specifications
\* Presence and the offline queue: one user, two connection attempts of either
\* kind, notifications; the queue capacity is drawn from 1 .. MaxQuota.
Init == \E q \in 1 .. MaxQuota : InitWith(Cfg(MaxQuota, MaxQuota, q))

Next ==
    \/ \E s \in 1 .. NumSockets - 1 : Connect(s, "r1", "u1") \/ ConnectPartner(s, "u1")
    \/ \E s \in 1 .. NumSockets - 1 : FlushSend(s)
    \/ HandlerSteps(1 .. NumSockets - 1)
    \/ HeartbeatSteps(1 .. NumSockets - 1)
    \/ NotifySteps(Notifs, "u1")

Spec == Init /\ [][Next]_vars

\* The user quota: three connection attempts of one user and one notification;
\* the per-user maximum is drawn from 1 .. MaxQuota.
InitQuota == \E q \in 1 .. MaxQuota : InitWith(Cfg(q, MaxQuota, MaxQuota))

NextQuota ==
    \/ \E s \in Sockets : Connect(s, "r1", "u1") \/ ConnectPartner(s, "u1")
    \/ \E s \in Sockets : FlushSend(s)
    \/ HandlerSteps(Sockets)
    \/ \E s \in Sockets : HbStart(s) \/ HbEnd(s)
    \/ NotifySteps({1}, "u1")

SpecQuota == InitQuota /\ [][NextQuota]_vars

\* A presence open that flushes a queue of two, with a third notification.
InitOrder == InitWith(Cfg(MaxQuota, MaxQuota, MaxQuota))

NextOrder ==
    \/ ConnectPartner(1, "u1")
    \/ FlushSend(1)
    \/ HandlerSteps({1})
    \/ HeartbeatSteps({1})
    \/ NotifySteps(Calls, "u1")

SpecOrder == InitOrder /\ [][NextOrder]_vars

\* One room: three joins and broadcasts; the per-room maximum is drawn from
\* 1 .. MaxQuota and the user quota does not bind.
InitRoom == \E q \in 1 .. MaxQuota : InitWith(Cfg(NumSockets, q, MaxQuota))

NextRoom ==
    \/ \E s \in Sockets : Connect(s, "r1", "u1")
    \/ HandlerSteps(Sockets)
    \/ HeartbeatSteps({1})
    \/ \E s \in Sockets \ {1} : HbStart(s) \/ HbEnd(s)
    \/ BroadcastSteps(Bcasts, "r1")

SpecRoom == InitRoom /\ [][NextRoom]_vars

\* A room join that flushes the joining user's queue, with a broadcast.
InitJoin == InitWith(Cfg(MaxQuota, MaxQuota, MaxQuota))

NextJoin ==
    \/ \E s \in 1 .. NumSockets - 1 : Connect(s, "r1", "u1")
    \/ \E s \in 1 .. NumSockets - 1 : FlushSend(s)
    \/ HandlerSteps(1 .. NumSockets - 1)
    \/ HeartbeatSteps(1 .. NumSockets - 1)
    \/ BroadcastSteps(Bcasts, "r1")
    \/ NotifyCall(1, "u1")

SpecJoin == InitJoin /\ [][NextJoin]_vars

\* Two rooms and a presence connection of one user, with a broadcast to room r1.
InitIso == InitWith(Cfg(NumSockets, MaxQuota, MaxQuota))

NextIso ==
    \/ Connect(1, "r1", "u1")
    \/ Connect(2, "r2", "u1")
    \/ ConnectPartner(3, "u1")
    \/ HandlerSteps(1 .. 3)
    \/ HeartbeatSteps({1})
    \/ \E s \in 2 .. 3 : HbStart(s) \/ HbEnd(s)
    \/ BroadcastSteps(Bcasts, "r1")

SpecIso == InitIso /\ [][NextIso]_vars

\* Heartbeats of a room connection and a presence connection, the sleep and the
\* ping of heartbeat_loop told apart. The event loop runs every task that is
\* ready and every timer that is due, so each step of a heartbeat task and each
\* step of a handler's finally block is taken once it stays possible.
InitBeat == InitWith(Cfg(MaxQuota, MaxQuota, MaxQuota))

HeartbeatTask(s) == HbStart(s) \/ HbWake(s) \/ HbSend(s) \/ HbEnd(s)

HandlerTeardown(s) == HandlerExit(s) \/ HandlerResume(s)

NextBeat ==
    \/ Connect(1, "r1", "u1")
    \/ ConnectPartner(2, "u1")
    \/ Connect(3, "r1", "u1")
    \/ \E s \in 1 .. 3 : PeerDrop(s)
    \/ \E s \in 1 .. 3 : HandlerTeardown(s)
    \/ \E s \in 1 .. 3 : HeartbeatTask(s)

SpecBeat ==
    /\ InitBeat
    /\ [][NextBeat]_vars
    /\ \A s \in 1 .. 3 : WF_vars(HeartbeatTask(s)) /\ WF_vars(HandlerTeardown(s))

\* A room connection and a presence connection of one user, a notification, and
\* shutdown() called at any moment.
InitShut == InitWith(Cfg(MaxQuota, MaxQuota, MaxQuota))

NextShut ==
    \/ Connect(1, "r1", "u1")
    \/ ConnectPartner(2, "u1")
    \/ \E s \in 1 .. 2 : FlushSend(s)
    \/ HandlerSteps(1 .. 2)
    \/ \E s \in 1 .. 2 : HbStart(s) \/ HbEnd(s)
    \/ NotifySteps({1}, "u1")
    \/ ShutdownCall
    \/ ShutdownClose

SpecShut == InitShut /\ [][NextShut]_vars

\* The endpoints with every kind of request: two invocations, for two users, one
\* room and the presence slots; both maxima are drawn from 1 .. MaxQuota.
InitAdmit ==
    \E qu \in 1 .. MaxQuota, qr \in 1 .. MaxQuota : InitWith(Cfg(qu, qr, MaxQuota))

NextAdmit ==
    \/ \E s \in 1 .. NumSockets - 1, u \in Users, q \in Requests :
           EventWebsocket(s, "r1", u, q)
    \/ \E s \in 1 .. NumSockets - 1, u \in Users, tok \in {"missing", "invalid", "valid"} :
           PartnerWebsocket(s, u, tok)
    \/ \E s \in 1 .. NumSockets - 1 : FlushSend(s)
    \/ HandlerSteps(1 .. NumSockets - 1)
    \/ HeartbeatSteps({1})
    \/ \E s \in 2 .. NumSockets - 1 : HbStart(s) \/ HbEnd(s)
    \/ NotifyCall(1, "u1")

SpecAdmit == InitAdmit /\ [][NextAdmit]_vars

\* Client texts on a room connection and on two presence connections of one
\* user, MaxInbound of them in all.
InitInbound == InitWith(Cfg(NumSockets, MaxQuota, MaxQuota))

NextInbound ==
    \/ Connect(1, "r1", "u1")
    \/ \E s \in 2 .. 3 : ConnectPartner(s, "u1")
    \/ \E s \in Sockets, d \in Texts : HandlerReceive(s, d)
    \/ HandlerSteps(Sockets)
    \/ \E s \in Sockets : HbStart(s) \/ HbEnd(s)

SpecInbound == InitInbound /\ [][NextInbound]_vars

\* A room connection and a presence connection of one user, and shutdown()
\* called twice, the second time after the first call has returned.
InitAgain == InitWith(Cfg(MaxQuota, MaxQuota, MaxQuota))

NextAgain ==
    \/ Connect(1, "r1", "u1")
    \/ ConnectPartner(2, "u1")
    \/ HandlerSteps(1 .. 2)
    \/ \E s \in 1 .. 2 : HbStart(s) \/ HbEnd(s)
    \/ ShutdownCall
    \/ ShutdownClose
    \/ ShutdownAgain

SpecAgain == InitAgain /\ [][NextAgain]_vars

\* Notifications of one user sent by the routers (manager.notify_*) and by the
\* business services (NotificationService.notify_*), with a presence connection
\* and a room connection of that user.
InitFacade == InitWith(Cfg(MaxQuota, MaxQuota, MaxQuota))

NextFacade ==
    \/ ConnectPartner(1, "u1")
    \/ Connect(2, "r1", "u1")
    \/ \E s \in 1 .. 2 : FlushSend(s)
    \/ HandlerSteps(1 .. 2)
    \/ \E s \in 1 .. 2 : HbStart(s) \/ HbEnd(s)
    \/ NotifySteps(Notifs, "u1")
    \/ \E n \in Notifs : ServiceNotify(n, "u1")

SpecFacade == InitFacade /\ [][NextFacade]_vars

\* Two presence connections of one user whose peers go away, under the
\* scheduling of SpecBeat: every heartbeat task and every handler's finally
\* block runs once it stays ready.
InitGone == InitWith(Cfg(NumSockets, MaxQuota, MaxQuota))

NextGone ==
    \/ \E s \in 1 .. 2 : ConnectPartner(s, "u1")
    \/ \E s \in 1 .. 2 : PeerDrop(s)
    \/ \E s \in 1 .. 2 : HandlerTeardown(s)
    \/ \E s \in 1 .. 2 : HeartbeatTask(s)

SpecGone ==
    /\ InitGone
    /\ [][NextGone]_vars
    /\ \A s \in 1 .. 2 : WF_vars(HeartbeatTask(s)) /\ WF_vars(HandlerTeardown(s))

\* Two joins of one user to one room, their heartbeat tasks with the sleep and
\* the ping told apart, and shutdown() called at any moment.
InitDrain == InitWith(Cfg(MaxQuota, MaxQuota, MaxQuota))

NextDrain ==
    \/ \E s \in 1 .. 2 : Connect(s, "r1", "u1")
    \/ HandlerSteps(1 .. 2)
    \/ \E s \in 1 .. 2 : HeartbeatTask(s)
    \/ ShutdownCall
    \/ ShutdownClose

SpecDrain == InitDrain /\ [][NextDrain]_vars

\* ------------------------------------------------------------------ claims
\* The records owned by u: its members of every room plus its presence slot.
NumRecords(u) ==
    Cardinality({p \in UNION {{<<r, i>> : i \in 1 .. Len(active_connections[r])} :
                              r \in DOMAIN active_connections} :
                     active_connections[p[1]][p[2]].user_id = u})
    + (IF Has(partner_connections, u) THEN 1 ELSE 0)

\* Some disconnect or disconnect_partner call is suspended in _stop_heartbeat.
TeardownSuspended ==
    \/ \E s \in Sockets : handler[s].pc = "stop"
    \/ \E n \in Notifs : notif[n].pc = "stop"
    \/ \E b \in Bcasts : bcast[b].pc = "stop"

\* C1: every user owns at most WS_MAX_CONNECTIONS_PER_USER registered connection
\* records, room and presence records together. Stated for the states in which no
\* teardown is suspended, where no record is about to be removed.
C1_UserQuota ==
    ~TeardownSuspended =>
        \A u \in Users : NumRecords(u) <= settings.WS_MAX_CONNECTIONS_PER_USER

\* C2: in every reachable state, the states seen while a disconnect is suspended
\* included, user_connection_counts[u] is the number of records u owns.
C2_CounterConsistency ==
    \A u \in Users : Get(user_connection_counts, u, 0) = NumRecords(u)

\* C3: a presence connection whose slot was taken over by a newer connect_partner
\* has been closed: its socket is never left open and unregistered.
C3_PresenceSingleSlot ==
    \A s \in replaced : sock[s] # "open"

\* C4: every call _send_notification(u, n) that has ended either sent n on the
\* presence socket or handed n to u's offline queue, and not both.
C4_SendDeliversOrQueues ==
    \A n \in Notifs :
        notif[n].pc \in {"done", "raised"} =>
            notif[n].sent # (notif[n].queued \/ notif[n].dropped)

\* C5: no _send_notification call and no broadcast_to_event call ever raises to
\* its caller.
C5_FireAndForget ==
    /\ \A n \in Notifs : notif[n].pc # "raised"
    /\ \A b \in Bcasts : bcast[b].pc # "raised"

FirstN(q, n) == SubSeq(q, 1, IF Len(q) < n THEN Len(q) ELSE n)

IsPrefix(a, b) == Len(a) <= Len(b) /\ SubSeq(b, 1, Len(a)) = a

IsFlushed(e) == e.via = "flush"

\* The messages socket s received from the flush run for it, in order.
FlushRcvd(s) ==
    LET x == SelectSeq(rcvd[s], IsFlushed) IN [i \in 1 .. Len(x) |-> x[i].m]

QueueOf(u) == Get(message_queues, u, <<>>)

\* C7: every user's queue holds at most WS_MESSAGE_QUEUE_SIZE messages; a message
\* handed to a full queue leaves the queue as it was, and the producer's call ends
\* normally.
C7_QueueBound ==
    /\ [](\A u \in Users : Len(QueueOf(u)) <= settings.WS_MESSAGE_QUEUE_SIZE)
    /\ [](\A n \in Notifs : notif[n].dropped => notif[n].pc = "done")
    /\ [][\A u \in Users :
            (/\ Len(QueueOf(u)) = settings.WS_MESSAGE_QUEUE_SIZE
             /\ Len(enq'[u]) > Len(enq[u]))
                => Get(message_queues', u, <<>>) = QueueOf(u)]_vars

\* A notification was handed to a full queue and dropped.
C7_Witness ==
    \E n \in Notifs :
        /\ notif[n].dropped
        /\ Len(QueueOf(notif[n].user)) = settings.WS_MESSAGE_QUEUE_SIZE

\* C8: when a flush has returned, every message it took from the queue was sent on
\* the new socket or is back in the user's queue.
C8_FlushRequeue ==
    \A s \in Sockets : flushlog[s].done => flushlog[s].lost = {}

\* C9: every room holds at most WS_MAX_CONNECTIONS_PER_ROOM records, and a connect
\* to a room that is at the maximum is rejected and registers nothing.
C9_RoomCapacity ==
    /\ [](\A r \in Rooms : Len(RoomOf(r)) <= settings.WS_MAX_CONNECTIONS_PER_ROOM)
    /\ [][\A s \in Sockets :
            (/\ handler[s].pc = "idle" /\ handler'[s].kind = "room"
             /\ Len(RoomOf(handler'[s].room)) >= settings.WS_MAX_CONNECTIONS_PER_ROOM)
                => /\ handler'[s].pc = "rejected"
                   /\ active_connections' = active_connections
                   /\ heartbeat_tasks' = heartbeat_tasks
                   /\ task' = task
                   /\ sock'[s] = "closed"]_vars

\* A join was rejected while the room was at its maximum.
C9_Witness ==
    \E s \in Sockets :
        /\ handler[s].pc = "rejected" /\ handler[s].kind = "room"
        /\ Get(user_connection_counts, handler[s].user, 0)
               < settings.WS_MAX_CONNECTIONS_PER_USER
        /\ Len(RoomOf(handler[s].room)) = settings.WS_MAX_CONNECTIONS_PER_ROOM

\* A disconnect(_, r) call is suspended in _stop_heartbeat.
LeaveInProgress(r) ==
    \/ \E s \in Sockets : handler[s].pc = "stop" /\ handler[s].key = <<handler[s].user, r>>
    \/ \E b \in Bcasts : bcast[b].pc = "stop" /\ bcast[b].room = r

\* C10: whenever no leave of room r is in progress, r has no entry with an empty
\* member list in active_connections, and no entry in room_connection_counts
\* unless it has members.
C10_EmptyRoomCleanup ==
    \A r \in Rooms :
        ~LeaveInProgress(r) =>
            /\ Has(active_connections, r) => active_connections[r] # <<>>
            /\ Has(room_connection_counts, r) => Has(active_connections, r)

Count(q, x) == Cardinality({i \in 1 .. Len(q) : q[i] = x})

\* C11: when the pass of a broadcast_to_event(r, m, exclude) call has ended, every
\* socket that was a member of r from the start of the call until now, exclude
\* aside, has had exactly one send attempted on it, and exclude none.
C11_BroadcastCoverage ==
    \A b \in Bcasts :
        bcast[b].pc \in {"stop", "done", "raised"} =>
            /\ \A s \in (bcast[b].start \cap Members(bcast[b].room)) \ {bcast[b].excl} :
                   Count(bcast[b].tried, s) = 1
            /\ \A s \in Sockets : Count(bcast[b].tried, s) <= 1
            /\ Count(bcast[b].tried, bcast[b].excl) = 0

\* C12: while a broadcast pass over room r is between sends, no join or leave of
\* another task changes the member list of r.
C12_BroadcastPassAtomic ==
    [][\A b \in Bcasts :
          (bcast[b].pc = "send" /\ handler' # handler)
              => Get(active_connections', bcast[b].room, <<>>) = RoomOf(bcast[b].room)]_vars

\* The heartbeat task made for socket s will ping s again unless it is stopped.
HeartbeatRunning(s) == task[s] \in {"new", "sleep", "ping"}

\* heartbeat_tasks still holds the task made for socket s.
HeartbeatTracked(s) == \E k \in DOMAIN heartbeat_tasks : heartbeat_tasks[k] = s

\* The sockets on which the send of broadcast b raised.
BroadcastFailed(b) ==
    {s \in SeqSet(bcast[b].tried) :
        ~\E i \in 1 .. Len(rcvd[s]) : rcvd[s][i] = [m |-> BMsg(b), via |-> "bcast"]}

\* C13: when broadcast_to_event(r, m) has returned, every member whose send failed
\* is gone from active_connections[r], the room counter matches the member list,
\* and the failed member's heartbeat is stopped and no longer tracked.
C13_BroadcastFailureCleanup ==
    \A b \in Bcasts :
        bcast[b].pc = "done" =>
            /\ Len(RoomOf(bcast[b].room)) = Get(room_connection_counts, bcast[b].room, 0)
            /\ \A s \in BroadcastFailed(b) :
                   /\ s \notin Members(bcast[b].room)
                   /\ ~HeartbeatRunning(s)
                   /\ ~HeartbeatTracked(s)

\* C15: no disconnect(ws, r) called from a room handler's finally block raises, and
\* the room counter always equals the number of records in the room.
C15_RoomLeaveIdempotent ==
    /\ \A s \in Sockets : handler[s].kind = "room" => handler[s].pc # "raised"
    /\ \A r \in Rooms : Get(room_connection_counts, r, 0) = Len(RoomOf(r))

\* C16: overlapping disconnect_partner(u) calls release the user's counter once:
\* the counter never goes below zero, and the call from the presence handler's
\* finally block does not raise.
C16_PresenceCloseIdempotent ==
    /\ \A u \in Users : Get(user_connection_counts, u, 0) >= 0
    /\ \A s \in Sockets : handler[s].kind = "partner" => handler[s].pc # "raised"

\* C18: once the handler of a connection has finished its teardown, the heartbeat
\* task made for that connection's socket is neither running nor tracked.
C18_NoLeakedHeartbeat ==
    \A s \in Sockets :
        handler[s].pc = "done" => ~HeartbeatRunning(s) /\ ~HeartbeatTracked(s)

\* C19: while the manager is not shutting down, every registered connection whose
\* socket is open has its own heartbeat task running and tracked under its key.
C19_OneHeartbeatPerConnection ==
    \A s \in Sockets :
        (Registered(s) /\ sock[s] = "open" /\ ~shutting_down) =>
            /\ HeartbeatRunning(s)
            /\ Get(heartbeat_tasks, KeyOf(s), None) = s

\* The room the message of broadcast b was addressed to.
BcastRoomOf(m) == bcast[CHOOSE b \in Bcasts : BMsg(b) = m].room

\* C14: a broadcast message is received only on sockets that joined the room it
\* was addressed to, and a step of broadcast_to_event(r, m) changes neither the
\* member list nor the counter of any other room, nor any presence slot.
C14_BroadcastIsolation ==
    /\ [](\A s \in Sockets : \A i \in 1 .. Len(rcvd[s]) :
            rcvd[s][i].via = "bcast" =>
                /\ handler[s].kind = "room"
                /\ handler[s].room = BcastRoomOf(rcvd[s][i].m))
    /\ [][\A b \in Bcasts :
            (bcast'[b] # bcast[b] /\ handler' = handler) =>
                /\ partner_connections' = partner_connections
                /\ \A r \in Rooms \ {bcast'[b].room} :
                      /\ Get(active_connections', r, <<>>) = RoomOf(r)
                      /\ Has(active_connections', r) = Has(active_connections, r)
                      /\ Has(room_connection_counts', r) = Has(room_connection_counts, r)
                      /\ Get(room_connection_counts', r, 0)
                             = Get(room_connection_counts, r, 0)]_vars

\* A broadcast to r1 has removed a failed member while another room has a member
\* and a presence connection is registered.
C14_Witness ==
    \E b \in Bcasts :
        /\ bcast[b].pc = "done"
        /\ BroadcastFailed(b) # {}
        /\ \E r \in Rooms \ {bcast[b].room} : RoomOf(r) # <<>>
        /\ partner_connections # <<>>

\* C17: every registered connection is eventually closed and removed by its
\* heartbeat supervisor unless something else removes it first; in particular one
\* whose peer stays connected and never answers a ping.
C17_HeartbeatTimeout ==
    \A s \in Sockets : Registered(s) ~> ~Registered(s)

\* C20: at the step in which shutdown() returns, active_connections,
\* partner_connections, both counter maps, message_queues, heartbeat_tasks and
\* last_heartbeat are all empty.
C20_ShutdownCompleteness ==
    [][(shut.pc # "done" /\ shut'.pc = "done") =>
          /\ active_connections' = <<>>
          /\ partner_connections' = <<>>
          /\ user_connection_counts' = <<>>
          /\ room_connection_counts' = <<>>
          /\ message_queues' = <<>>
          /\ heartbeat_tasks' = <<>>
          /\ last_heartbeat' = {}]_vars

\* shutdown() has returned, having been called with a room and a presence
\* connection registered, a message queued and a disconnect in flight.
C20_Witness ==
    /\ shut.pc = "done"
    /\ shut.had.conns /\ shut.had.queued /\ shut.had.inflight
    /\ Len(shut.closing) >= 1

\* C21: shutdown() never raises, and when it has returned a close with the
\* going-away code was attempted on every socket that was registered, in a room
\* or in a presence slot, when it was called.
C21_ShutdownAlwaysCompletes ==
    /\ shut.pc # "raised"
    /\ shut.pc = "done" => shut.had.socks \subseteq SeqSet(shut.closing)

\* C22: when shutdown() has returned, no heartbeat task is left uncancelled in
\* its loop: none is sleeping before its next ping or sending a ping.
C22_ShutdownAwaitsHeartbeats ==
    shut.pc = "done" => \A s \in Sockets : task[s] \notin {"sleep", "ping"}

\* C23: once shutting_down is set, no heartbeat task is created and no heartbeat
\* task goes from its sleep to sending a ping.
C23_DrainingStopsHeartbeats ==
    [][shutting_down =>
          \A s \in Sockets :
              /\ task[s] = "none" => task'[s] = "none"
              /\ task[s] = "sleep" => task'[s] # "ping"]_vars

\* The first of the token, room-existence and membership checks that request q
\* fails ("none": it passes all three).
AdmissionCause(q) ==
    IF q.token = "missing" THEN "no_token"
    ELSE IF q.token = "invalid" THEN "bad_token"
    ELSE IF q.kind = "room" /\ q.event = "absent" /\ q.db THEN "no_room"
    ELSE IF q.kind = "room" /\ q.event = "found" /\ q.db /\ ~q.member THEN "not_member"
    ELSE "none"

\* The close code the wire protocol assigns to each cause of rejection.
ReasonCode(cause) ==
    CASE cause = "no_token" -> 1008
      [] cause = "bad_token" -> 4001
      [] cause = "no_room" -> 1003
      [] cause = "not_member" -> 4003
      [] cause = "quota" -> 1008

\* C24: an endpoint invocation that ends in a rejection leaves the member lists,
\* the presence slots, the values of both counters, the heartbeat tasks and the
\* offline queues as they were and closes its socket with the code of its cause,
\* and one that registers a record was given a valid token, an existing room and
\* a member of it.
C24_AdmissionNoTrace ==
    [][\A s \in Sockets :
          (handler[s].pc = "idle" /\ handler'[s].pc # "idle") =>
              /\ handler'[s].pc \in {"refused", "rejected"} =>
                    /\ active_connections' = active_connections
                    /\ partner_connections' = partner_connections
                    /\ \A u \in Users : Get(user_connection_counts', u, 0)
                                            = Get(user_connection_counts, u, 0)
                    /\ \A r \in Rooms : Get(room_connection_counts', r, 0)
                                            = Get(room_connection_counts, r, 0)
                    /\ heartbeat_tasks' = heartbeat_tasks
                    /\ task' = task
                    /\ message_queues' = message_queues
                    /\ sock'[s] = "closed"
                    /\ code'[s] # 0
              /\ handler'[s].pc = "rejected" => code'[s] = ReasonCode("quota")
              /\ AdmissionCause(request') # "none" =>
                    /\ handler'[s].pc = "refused"
                    /\ code'[s] = ReasonCode(AdmissionCause(request'))
              /\ Registered(s)' =>
                    /\ request'.token = "valid"
                    /\ request'.event = "found"
                    /\ request'.member]_vars

\* A user who is not a member of the room was refused with the forbidden code
\* while another connection is registered with its heartbeat and a message is
\* queued.
C24_Witness ==
    \E s \in Sockets :
        /\ handler[s].pc = "refused" /\ code[s] = 4003
        /\ \E t \in Sockets : Registered(t) /\ HeartbeatTracked(t)
        /\ \E u \in Users : QueueOf(u) # <<>>

\* C25: a connect or connect_partner that rejects for a quota does so only when
\* the user owns at least WS_MAX_CONNECTIONS_PER_USER registered records or, for a
\* room join, the room has at least WS_MAX_CONNECTIONS_PER_ROOM members; so a user
\* who owns no record is never rejected for the user quota.
C25_QuotaRejectionExact ==
    [][\A s \in Sockets :
          (handler[s].pc = "idle" /\ handler'[s].pc = "rejected") =>
              \/ NumRecords(handler'[s].user) >= settings.WS_MAX_CONNECTIONS_PER_USER
              \/ /\ handler'[s].kind = "room"
                 /\ Len(RoomOf(handler'[s].room)) >= settings.WS_MAX_CONNECTIONS_PER_ROOM]_vars

\* C26: the close code a heartbeat task sends when its ping times out differs from
\* the policy-rejection code that connect and connect_partner send when a quota
\* is exceeded.
C26_DistinctCloseReasons ==
    \A s, t \in Sockets :
        (/\ task[s] = "closing" /\ code[s] # 0
         /\ handler[t].pc = "rejected" /\ code[t] # 0) => code[s] # code[t]

IsPongReply(e) == e.via = "pong"

IsPing(d) == d.form = "object" /\ d.type = "ping"

\* The timestamps of the pong replies socket s received, in order.
PongReplies(s) ==
    LET x == SelectSeq(rcvd[s], IsPongReply) IN [i \in 1 .. Len(x) |-> x[i].m]

\* The timestamps of the pings the handler of socket s has read, in order.
PingsRead(s) ==
    LET x == SelectSeq(inbound[s], IsPing) IN [i \in 1 .. Len(x) |-> x[i].ts]

\* C27: in both handlers the pong replies sent on a socket are exactly the pings
\* read from it, each with the client's timestamp; a pong read from a socket
\* writes last_activity of that socket's own record only; and reading a text of
\* any kind leaves the handler in its receive loop, the socket open, and the
\* member lists, presence slots and counters as they were.
C27_InboundControlProtocol ==
    /\ [](\A s \in Sockets : PongReplies(s) = PingsRead(s))
    /\ [](\A p \in activity : p[1] = p[2])
    /\ [][\A s \in Sockets :
            inbound'[s] # inbound[s] =>
                /\ handler'[s].pc = "recv"
                /\ sock' = sock
                /\ active_connections' = active_connections
                /\ partner_connections' = partner_connections
                /\ user_connection_counts' = user_connection_counts
                /\ room_connection_counts' = room_connection_counts]_vars

\* C28: a second call of shutdown(), made after the first has returned, returns
\* at once: it raises nothing, suspends on no close, and leaves every registry,
\* counter, queue, task map, task and socket as it was, with shutting_down true.
C28_ShutdownIdempotent ==
    [][(shut.calls = 1 /\ shut'.calls = 2) =>
          /\ shut'.pc = "done"
          /\ shutting_down'
          /\ active_connections' = active_connections
          /\ partner_connections' = partner_connections
          /\ user_connection_counts' = user_connection_counts
          /\ room_connection_counts' = room_connection_counts
          /\ message_queues' = message_queues
          /\ heartbeat_tasks' = heartbeat_tasks
          /\ last_heartbeat' = last_heartbeat
          /\ task' = task
          /\ sock' = sock]_vars

\* C29: no NotificationService.notify_* call raises to the business service that
\* made it, and each one that has returned sent its message on the recipient's
\* presence socket or appended it to the recipient's offline queue.
C29_FacadeDelegation ==
    \A n \in Notifs :
        notif[n].facade =>
            /\ notif[n].pc # "raised"
            /\ notif[n].pc = "done" => notif[n].sent \/ notif[n].queued

\* The connections of user u, other than s, that were accepted and whose handler
\* has not finished its teardown.
OthersServed(s, u) ==
    {x \in Sockets \ {s} :
        handler[x].user = u /\ handler[x].pc \in {"recv", "flush", "stop"}}

\* The record of s is in no registry, and the counter of its user counts no more
\* than that user's other connections, and the counter of its room no more than
\* the members the room has.
CleanedUp(s) ==
    /\ ~Registered(s)
    /\ Get(user_connection_counts, handler[s].user, 0)
           <= Cardinality(OthersServed(s, handler[s].user))
    /\ handler[s].kind = "room" =>
           Get(room_connection_counts, handler[s].room, 0)
               <= Len(RoomOf(handler[s].room))

\* C30: every connection that was accepted and whose socket is no longer open, so
\* that its handler's receive fails, is eventually cleaned up.
C30_PeerDisconnectCleanedUp ==
    \A s \in Sockets :
        (handler[s].pc \in {"recv", "flush", "stop", "done", "raised"} /\ sock[s] # "open")
            ~> CleanedUp(s)

\* C31: a step of the teardown of the presence handler of socket s, taken while
\* the presence slot of its user holds another socket, leaves that slot, the
\* heartbeat entry under the user's presence key and the heartbeat task of the
\* slot's socket as they were.
C31_PresenceTeardownOwnOnly ==
    [][\A s \in Sockets :
          LET u == handler[s].user
          IN  (/\ handler[s].kind = "partner"
               /\ handler[s].pc \in {"recv", "stop"}
               /\ handler'[s] # handler[s]
               /\ Has(partner_connections, u)
               /\ partner_connections[u].websocket # s)
                  => /\ Has(partner_connections', u)
                     /\ partner_connections'[u] = partner_connections[u]
                     /\ Get(heartbeat_tasks', <<u, Partner>>, None)
                            = Get(heartbeat_tasks, <<u, Partner>>, None)
                     /\ task'[partner_connections[u].websocket]
                            = task[partner_connections[u].websocket]]_vars

\* C32: user_connection_counts[u] >= 0 for every user and
\* room_connection_counts[r] >= 0 for every room, in every reachable state.
C32_CountersNonNegative ==
    /\ \A u \in DOMAIN user_connection_counts : user_connection_counts[u] >= 0
    /\ \A r \in DOMAIN room_connection_counts : room_connection_counts[r] >= 0

\* C33: whenever no disconnect or disconnect_partner is suspended,
\* active_connections and room_connection_counts have the same room keys, and
\* the counter of every room is the length of its member list.
C33_RoomCounterConsistency ==
    ~TeardownSuspended =>
        /\ DOMAIN active_connections = DOMAIN room_connection_counts
        /\ \A r \in DOMAIN active_connections :
               room_connection_counts[r] = Len(active_connections[r])

\* m comes before k among the messages socket s received.
Before(s, m, k) ==
    \E i, j \in 1 .. Len(rcvd[s]) : i < j /\ rcvd[s][i].m = m /\ rcvd[s][j].m = k

\* C34: when notification m1 was queued while the user was offline and is taken
\* by the flush of presence socket s, and notification m2 is produced after s
\* was registered, before the flush began to send m1, then s never receives
\* m2 before m1.
C34_OrderAcrossReconnect ==
    \A m2 \in Calls : \A m1 \in notif[m2].behind :
        ~Before(notif[m2].ws, m2, m1)

\* How many times notification n was successfully sent, over all sockets.
RECURSIVE TimesSent(_, _)
TimesSent(n, SS) ==
    IF SS = {} THEN 0
    ELSE LET s == CHOOSE x \in SS : TRUE
         IN  Cardinality({i \in 1 .. Len(rcvd[s]) : rcvd[s][i].m = n})
                 + TimesSent(n, SS \ {s})

\* C35: every notification passed to _send_notification is successfully sent at
\* most once in all, and a notification that was successfully sent is in no
\* user's queue.
C35_AtMostOnce ==
    \A n \in Calls :
        /\ TimesSent(n, Sockets) <= 1
        /\ TimesSent(n, Sockets) = 1 => \A u \in Users : ~InQueue(Cur, u, n)

\* C36: once shutting_down is set no step registers a connection, and from the
\* return of shutdown() onwards the registries and both counter maps are empty.
C36_NoAdmissionAfterShutdown ==
    /\ [][shutting_down => \A s \in Sockets : Registered(s)' => Registered(s)]_vars
    /\ [](shut.pc = "done" =>
            /\ active_connections = EmptyDict
            /\ partner_connections = EmptyDict
            /\ user_connection_counts = EmptyDict
            /\ room_connection_counts = EmptyDict)

\* Socket s is accepted into a room in this step.
Joins(s) ==
    /\ handler[s].pc = "idle"
    /\ handler'[s].kind = "room"
    /\ handler'[s].pc \in {"flush", "recv"}

\* The connect call for room socket s returns in this step, every send of its
\* flush having succeeded.
JoinFlushed(s) ==
    /\ handler'[s].kind = "room"
    /\ handler[s].pc \in {"idle", "flush"}
    /\ handler'[s].pc = "recv"
    /\ flushlog'[s].taken # <<>>
    /\ sock'[s] = "open"

====
